---- MODULE Spec2Model ----
(***************************************************************************)
(* FileTrackerService (packages/core/src/utils/fileTrackerService.ts):     *)
(* the bounded registry of tracked files, its lifecycle transitions and     *)
(* its capacity eviction.  The registry is a JavaScript Map (insertion      *)
(* ordered); it is modelled as a sequence of FileEntry records with         *)
(* pairwise distinct paths.  Every `new Date()` is a separate reading of    *)
(* the wall clock.  The three handlers that await filesystem I/O            *)
(* (updateFileState, isFileStale, refreshFileState) are split at their      *)
(* awaits; the operation suspended on I/O is a record in `pending`.         *)
(* Under Spec the clock never goes back: a reading is at least the one      *)
(* before it, and may equal it.  The options useContentHash and             *)
(* generateDiffs are only handed on to the FileStateTracker.                *)
(***************************************************************************)
EXTENDS Integers, Sequences, FiniteSets, TLC

\* ---------------------------------------------------------------- bounds
MaxTime == 1
MaxCapacity == 1
MaxPending == 1
MaxOverlap == 2
MaxMtime == 2

Paths == {"a", "b"}
Times == 0..MaxTime
\* error.message of a failed filesystem access
Errors == {"ENOENT", "Permission denied"}
Undefined == "undefined"

\* FileStatus enum (NOT_READ is never stored in an entry)
NOT_READ == "not_read"
READ_CURRENT == "read_current"
READ_STALE == "read_stale"
READ_ERROR == "read_error"
FileStatus == {NOT_READ, READ_CURRENT, READ_STALE, READ_ERROR}

\* FileState: the snapshot handed to the service by its callers
\* (the size and the contents are the ones the tests use)
FileStates == [mtime : 1..MaxMtime, size : {13}, content : {"Hello, World!"}]

\* The file states that differ in each field a comparison can look at
MetaStates ==
    [mtime : 1..MaxMtime, size : {13, 15},
     content : {"Hello, World!", "Hello, Universe!"}]

VARIABLES
    options,       \* Required<FileTrackerServiceOptions>, fixed at construction
    trackedFiles,  \* Map<string, FileEntry> in insertion order
    now,           \* the wall clock that new Date() reads
    pending,       \* operations suspended at an await
    last           \* the service step just taken and what it returned

vars == <<options, trackedFiles, now, pending, last>>

\* ------------------------------------------------------------ Map helpers
Keys(m) == {m[i].path : i \in DOMAIN m}
Has(m, p) == p \in Keys(m)
IndexOf(m, p) == CHOOSE i \in DOMAIN m : m[i].path = p
Get(m, p) == m[IndexOf(m, p)]

\* Map.prototype.set: an existing key keeps its position, a new one goes last
MapSet(m, p, e) ==
    IF Has(m, p) THEN [m EXCEPT ![IndexOf(m, p)] = e] ELSE Append(m, e)

\* Map.prototype.delete
MapDelete(m, p) ==
    IF Has(m, p)
    THEN LET k == IndexOf(m, p)
         IN  [i \in 1..(Len(m) - 1) |-> IF i < k THEN m[i] ELSE m[i + 1]]
    ELSE m

\* Pending operations whose FileEntry reference is for one of `gone` now point
\* at an object that is no longer in the Map
Detach(pend, gone) ==
    {IF o.path \in gone THEN [o EXCEPT !.attached = FALSE] ELSE o : o \in pend}

\* ------------------------------------------- FileStateTracker (evaluator)
NoFile == [mtime |-> 0, size |-> 0, content |-> ""]
NoIo == [err |-> Undefined, stat |-> NoFile]
FsOutcomes(F) ==
    {[err |-> Undefined, stat |-> f] : f \in F}
        \cup {[err |-> e, stat |-> NoFile] : e \in Errors}
Failed(io) == io.err # Undefined

\* What one filesystem access can produce: the live file, or a failure with
\* its text.  checkFreshness(path, state).isFresh when the access succeeds:
\* content-hash mode compares the digests of the contents (equal exactly when
\* the contents are, over these contents), metadata mode compares mtime and
\* size with the live stat
isFresh(io, state) ==
    IF options.useContentHash
    THEN io.stat.content = state.content
    ELSE /\ io.stat.mtime = state.mtime
         /\ io.stat.size = state.size

\* ------------------------------------------------------- evictOldestEntry
RECURSIVE EvictScan(_, _, _, _)
EvictScan(m, i, oldestPath, oldestTime) ==
    IF i > Len(m) THEN oldestPath
    ELSE IF m[i].firstReadAt < oldestTime
         THEN EvictScan(m, i + 1, m[i].path, m[i].firstReadAt)
         ELSE EvictScan(m, i + 1, oldestPath, oldestTime)

\* t is the reading of `let oldestTime = new Date()`
evictOldestEntry(m, t) ==
    LET oldestPath == EvictScan(m, 1, Undefined, t)
    IN  IF oldestPath # Undefined THEN MapDelete(m, oldestPath) ELSE m

\* ----------------------------------------------------------- registerFile
\* (mutant) the two clock readings land in each other's field
NewEntrySwapped(p, s, t1, t2) ==
    [path |-> p, state |-> s, status |-> READ_CURRENT,
     firstReadAt |-> t2, lastUpdatedAt |-> t1, error |-> Undefined]

NewEntry(p, s, t1, t2) ==
    [path |-> p, state |-> s, status |-> READ_CURRENT,
     firstReadAt |-> t1, lastUpdatedAt |-> t2, error |-> Undefined]

Overflows(m) == Len(m) > options.maxTrackedFiles

NoEntry == NewEntry("", NoFile, 0, 0)

\* `File not tracked: ${filePath}`
NotTrackedError(p) == <<"File not tracked: ", p>>
NoThrow == <<>>

\* The record of a service step: the handler, whether it is the call or the
\* continuation after an await, its path and snapshot arguments, what it
\* returned ("await": nothing yet, the handler is suspended), what the awaited
\* filesystem access produced, and what it threw
Ret(op, step, p, s, r, io) ==
    [op |-> op, step |-> step, path |-> p, state |-> s, ret |-> r, io |-> io,
     thrown |-> NoThrow, before |-> NoEntry]
Throw(op, step, p, e) ==
    [op |-> op, step |-> step, path |-> p, state |-> NoFile, ret |-> "throw",
     io |-> NoIo, thrown |-> e, before |-> NoEntry]
\* The record of a step that suspends after writing into an entry: `before` is
\* the entry as the step found it
Suspended(op, step, p, s, io, e) ==
    [Ret(op, step, p, s, "await", io) EXCEPT !.before = e]

\* The body of registerFile; t1, t2 are the two readings of new Date() in the
\* entry literal, t3 the one evictOldestEntry takes when it runs
RegisterEffect(p, s) ==
    \E t1 \in now..MaxTime : \E t2 \in t1..MaxTime : \E t3 \in t2..MaxTime :
        LET m1 == MapSet(trackedFiles, p, NewEntry(p, s, t1, t2))
            m2 == IF Overflows(m1) THEN evictOldestEntry(m1, t3) ELSE m1
        IN  /\ Overflows(m1) \/ t3 = t2
            /\ trackedFiles' = m2
            /\ now' = t3
            /\ pending' = Detach(pending, {p} \cup (Keys(m1) \ Keys(m2)))
            /\ UNCHANGED options

Register(op, p, s) ==
    /\ RegisterEffect(p, s)
    /\ last' = Ret(op, "call", p, s, "void", NoIo)

registerFile(p, s) == Register("registerFile", p, s)

\* ---------------------------------------------------------- autoTrackFile
\* (mutant) the gate is read the wrong way round
autoTrackFileInverted(p, s) ==
    IF ~options.trackAllFiles
    THEN Register("autoTrackFile", p, s)
    ELSE /\ last' = Ret("autoTrackFile", "call", p, NoFile, "void", NoIo)
         /\ UNCHANGED <<options, trackedFiles, now, pending>>

autoTrackFile(p, s) ==
    IF options.trackAllFiles
    THEN Register("autoTrackFile", p, s)
    ELSE /\ last' = Ret("autoTrackFile", "call", p, NoFile, "void", NoIo)
         /\ UNCHANGED <<options, trackedFiles, now, pending>>

\* -------------------------------------------------------- updateFileState
Op(kind, p, s, viaRefresh) ==
    [kind |-> kind, path |-> p, state |-> s, attached |-> TRUE,
     viaRefresh |-> viaRefresh]

\* Lines 111-117: the lookup, the throw, and the two assignments made before
\* the await
UpdateStart(m, p, s, t) ==
    MapSet(m, p, [Get(m, p) EXCEPT !.state = s, !.lastUpdatedAt = t])

\* (mutant) the lookup falls back to creating the entry
updateFileStateUpsert(p, s) ==
    /\ \E t \in now..MaxTime :
          /\ trackedFiles' =
               IF Has(trackedFiles, p) THEN UpdateStart(trackedFiles, p, s, t)
               ELSE Append(trackedFiles, NewEntry(p, s, t, t))
          /\ now' = t
    /\ pending' = pending \cup {Op("update", p, s, FALSE)}
    /\ last' = Ret("updateFileState", "call", p, s, "await", NoIo)
    /\ UNCHANGED options

updateFileState(p, s) ==
    IF ~Has(trackedFiles, p)
    THEN /\ last' = Throw("updateFileState", "call", p, NotTrackedError(p))
         /\ UNCHANGED <<options, trackedFiles, now, pending>>
    ELSE /\ \E t \in now..MaxTime :
              /\ trackedFiles' = UpdateStart(trackedFiles, p, s, t)
              /\ now' = t
         /\ pending' = pending \cup {Op("update", p, s, FALSE)}
         /\ last' = Suspended("updateFileState", "call", p, s, NoIo, Get(trackedFiles, p))
         /\ UNCHANGED options

\* (mutant) the catch block records the status but loses the message
UpdateFinishNoMessage(e, newState, io) ==
    IF Failed(io)
    THEN [e EXCEPT !.status = READ_ERROR]
    ELSE [e EXCEPT !.status = IF isFresh(io, newState) THEN READ_CURRENT
                               ELSE READ_STALE,
                   !.error = Undefined]

\* (mutant) a successful compare leaves the old error message in place
UpdateFinishKeepsError(e, newState, io) ==
    IF Failed(io)
    THEN [e EXCEPT !.status = READ_ERROR, !.error = io.err]
    ELSE [e EXCEPT !.status = IF isFresh(io, newState) THEN READ_CURRENT
                               ELSE READ_STALE]

\* (mutant) an entry that carries an error message stays in error once more,
\* and only the message is cleared
UpdateFinishStickyError(e, newState, io) ==
    IF Failed(io)
    THEN [e EXCEPT !.status = READ_ERROR, !.error = io.err]
    ELSE [e EXCEPT !.status = IF e.error # Undefined THEN READ_ERROR
                               ELSE IF isFresh(io, newState) THEN READ_CURRENT
                               ELSE READ_STALE,
                   !.error = Undefined]

\* Lines 120-132: what the continuation writes into its entry
\* (newState is the argument the call was made with)
UpdateFinish(e, newState, io) ==
    IF Failed(io)
    THEN [e EXCEPT !.status = READ_ERROR, !.error = io.err]
    ELSE [e EXCEPT !.status = IF isFresh(io, newState) THEN READ_CURRENT
                               ELSE READ_STALE,
                   !.error = Undefined]

\* Lines 110-133 run with nothing in between: the call at clock reading t and
\* its continuation on the outcome io
Updated(m, p, s, t, io) ==
    LET m1 == UpdateStart(m, p, s, t)
    IN  MapSet(m1, p, UpdateFinish(Get(m1, p), s, io))

\* A write through a FileEntry reference: it shows in the Map only while the
\* object is still the one stored under its path
WriteEntry(m, o, e) == IF o.attached THEN MapSet(m, o.path, e) ELSE m
Held(m, o) == Get(m, o.path)

\* checkFreshness settles and updateFileState runs to its end; a refresh that
\* was awaiting this update then returns true (line 197)
\* (mutant) the continuation looks the path up again instead of writing
\* through the entry it holds
updateFileStateResumeByPath(o, io) ==
    /\ o \in pending /\ o.kind = "update"
    /\ trackedFiles' =
         IF Has(trackedFiles, o.path)
         THEN MapSet(trackedFiles, o.path,
                     UpdateFinish(Get(trackedFiles, o.path), o.state, io))
         ELSE trackedFiles
    /\ pending' = pending \ {o}
    /\ last' = IF o.viaRefresh
               THEN Ret("refreshFileState", "resume", o.path, o.state, "true", io)
               ELSE Ret("updateFileState", "resume", o.path, o.state, "void", io)
    /\ UNCHANGED <<options, now>>

\* (mutant) the continuation stores its entry back under the path
updateFileStateResumePutsBack(o, io) ==
    /\ o \in pending /\ o.kind = "update"
    /\ trackedFiles' =
         IF Has(trackedFiles, o.path)
         THEN MapSet(trackedFiles, o.path,
                     UpdateFinish(Get(trackedFiles, o.path), o.state, io))
         ELSE MapSet(trackedFiles, o.path,
                     UpdateFinish(NewEntry(o.path, o.state, now, now), o.state, io))
    /\ pending' = pending \ {o}
    /\ last' = IF o.viaRefresh
               THEN Ret("refreshFileState", "resume", o.path, o.state, "true", io)
               ELSE Ret("updateFileState", "resume", o.path, o.state, "void", io)
    /\ UNCHANGED <<options, now>>

updateFileStateResume(o, io) ==
    /\ o \in pending /\ o.kind = "update"
    /\ trackedFiles' =
         IF o.attached
         THEN WriteEntry(trackedFiles, o, UpdateFinish(Held(trackedFiles, o), o.state, io))
         ELSE trackedFiles
    /\ pending' = pending \ {o}
    /\ last' = IF o.viaRefresh
               THEN Ret("refreshFileState", "resume", o.path, o.state, "true", io)
               ELSE Ret("updateFileState", "resume", o.path, o.state, "void", io)
    /\ UNCHANGED <<options, now>>

\* ------------------------------------------------------------ isFileStale
isFileStale(p) ==
    IF ~Has(trackedFiles, p)
    THEN /\ last' = Ret("isFileStale", "call", p, NoFile, "false", NoIo)
         /\ UNCHANGED <<options, trackedFiles, now, pending>>
    ELSE /\ pending' = pending \cup {Op("isStale", p, Get(trackedFiles, p).state, FALSE)}
         /\ last' = Ret("isFileStale", "call", p, NoFile, "await", NoIo)
         /\ UNCHANGED <<options, trackedFiles, now>>

\* (mutant) the catch block answers "not stale"
StaleVerdictOptimistic(state, io) ==
    IF Failed(io) THEN "false"
    ELSE IF isFresh(io, state) THEN "false" ELSE "true"

StaleVerdict(state, io) ==
    IF Failed(io) THEN "true"
    ELSE IF isFresh(io, state) THEN "false" ELSE "true"

\* (mutant) the verdict is written into the entry
isFileStaleResumeMarks(o, io) ==
    /\ o \in pending /\ o.kind = "isStale"
    /\ pending' = pending \ {o}
    /\ last' = Ret("isFileStale", "resume", o.path, o.state, StaleVerdict(o.state, io), io)
    /\ trackedFiles' =
         IF o.attached /\ StaleVerdict(o.state, io) = "true"
         THEN WriteEntry(trackedFiles, o,
                         [Held(trackedFiles, o) EXCEPT !.status = READ_STALE])
         ELSE trackedFiles
    /\ UNCHANGED <<options, now>>

isFileStaleResume(o, io) ==
    /\ o \in pending /\ o.kind = "isStale"
    /\ pending' = pending \ {o}
    /\ last' = Ret("isFileStale", "resume", o.path, o.state, StaleVerdict(o.state, io), io)
    /\ UNCHANGED <<options, trackedFiles, now>>

\* ------------------------------------------------------- refreshFileState
refreshFileState(p) ==
    IF ~Has(trackedFiles, p)
    THEN /\ last' = Ret("refreshFileState", "call", p, NoFile, "false", NoIo)
         /\ UNCHANGED <<options, trackedFiles, now, pending>>
    ELSE /\ pending' = pending \cup {Op("refresh", p, NoFile, TRUE)}
         /\ last' = Ret("refreshFileState", "call", p, NoFile, "await", NoIo)
         /\ UNCHANGED <<options, trackedFiles, now>>

\* (mutant) the failed refresh also drops the stored snapshot
RefreshFailWipes(e, msg, t) ==
    [e EXCEPT !.status = READ_ERROR, !.error = msg, !.lastUpdatedAt = t,
              !.state = NoFile]

\* Lines 199-201: what the catch block writes into the entry it looked up
RefreshFail(e, msg, t) ==
    [e EXCEPT !.status = READ_ERROR, !.error = msg, !.lastUpdatedAt = t]

\* getFileState settles.  On a failure the catch block runs.  On a success
\* updateFileState(filePath, newState) is called: it looks the path up again,
\* throws into the same catch block when the path is gone, and otherwise
\* stores newState and suspends on checkFreshness.
refreshFileStateResume(o, io) ==
    /\ o \in pending /\ o.kind = "refresh"
    /\ IF Failed(io) \/ ~Has(trackedFiles, o.path)
       THEN \E t \in now..MaxTime :
              /\ trackedFiles' =
                   IF o.attached
                   THEN WriteEntry(trackedFiles, o,
                            RefreshFail(Held(trackedFiles, o),
                                        IF Failed(io) THEN io.err
                                        ELSE NotTrackedError(o.path)[1], t))
                   ELSE trackedFiles
              /\ now' = t
              /\ pending' = pending \ {o}
              /\ last' = Ret("refreshFileState", "resume", o.path, NoFile, "false", io)
       ELSE \E t \in now..MaxTime :
              /\ trackedFiles' = UpdateStart(trackedFiles, o.path, io.stat, t)
              /\ now' = t
              /\ pending' = (pending \ {o}) \cup {Op("update", o.path, io.stat, TRUE)}
              /\ last' = Suspended("refreshFileState", "resume", o.path, io.stat, io,
                                   Get(trackedFiles, o.path))
    /\ UNCHANGED options

\* ------------------------------------------------------ removeFile, clear
removeFile(p) ==
    /\ trackedFiles' = MapDelete(trackedFiles, p)
    /\ pending' = Detach(pending, {p})
    /\ last' = Ret("removeFile", "call", p, NoFile,
                   IF Has(trackedFiles, p) THEN "true" ELSE "false", NoIo)
    /\ UNCHANGED <<options, now>>

NoPath == ""

clear ==
    /\ trackedFiles' = <<>>
    /\ pending' = Detach(pending, Paths)
    /\ last' = Ret("clear", "call", NoPath, NoFile, "void", NoIo)
    /\ UNCHANGED <<options, now>>

\* ---------------------------------------------------------------- queries
\* (mutant) a lookup that never answers undefined
getFileStatusResultAlways(m, p) == "entry"

\* getFileStatus returns the stored FileEntry object itself, or undefined
getFileStatusResult(m, p) == IF Has(m, p) THEN "entry" ELSE Undefined

getFileStatus(p) ==
    /\ last' = Ret("getFileStatus", "call", p, NoFile,
                   getFileStatusResult(trackedFiles, p), NoIo)
    /\ UNCHANGED <<options, trackedFiles, now, pending>>

getAllTrackedFiles(m) == m

getFilesByStatus(m, status) == SelectSeq(getAllTrackedFiles(m), LAMBDA e : e.status = status)

\* (mutant) the tally leaves the error entries out
getStatsNoErrors(m) ==
    [status \in FileStatus |->
        IF status = READ_ERROR THEN 0
        ELSE Cardinality({i \in DOMAIN m : m[i].status = status})]

getStats(m) ==
    [status \in FileStatus |-> Cardinality({i \in DOMAIN m : m[i].status = status})]

\* ------------------------------------------------------------------ clock
Tick ==
    /\ now < MaxTime
    /\ now' = now + 1
    /\ UNCHANGED <<options, trackedFiles, pending, last>>

\* ---------------------------------------------------------- specification
\* (useContentHash is left at its default, line 74, except under SpecMeta)
Options ==
    [maxTrackedFiles : 1..MaxCapacity, trackAllFiles : BOOLEAN,
     useContentHash : {FALSE}]

Init ==
    /\ options \in Options
    /\ trackedFiles = <<>>
    /\ now = 0
    /\ pending = {}
    /\ last = Ret("constructor", "call", NoPath, NoFile, "void", NoIo)

\* A call that will suspend needs a free slot among the K operations the model
\* lets be in flight at once
Room(K, p) == Has(trackedFiles, p) => Cardinality(pending) < K

\* The steps over the paths P and the file states F
Step(P, F, K) ==
    \/ \E p \in P, s \in F : registerFile(p, s)
    \/ \E p \in P, s \in F : autoTrackFile(p, s)
    \/ \E p \in P, s \in F : Room(K, p) /\ updateFileState(p, s)
    \/ \E o \in pending, io \in FsOutcomes(F) : updateFileStateResume(o, io)
    \/ \E p \in P : Room(K, p) /\ isFileStale(p)
    \/ \E o \in pending, io \in FsOutcomes(F) : isFileStaleResume(o, io)
    \/ \E p \in P : Room(K, p) /\ refreshFileState(p)
    \/ \E o \in pending, io \in FsOutcomes(F) : refreshFileStateResume(o, io)
    \/ \E p \in P : removeFile(p)
    \/ clear
    \/ \E p \in P : getFileStatus(p)
    \/ Tick

Next == Step(Paths, FileStates, MaxPending)

Spec == Init /\ [][Next]_vars

\* One path, both comparison modes, file states that differ in mtime, in size
\* and in content
OptionsMeta ==
    [maxTrackedFiles : 1..MaxCapacity, trackAllFiles : BOOLEAN,
     useContentHash : BOOLEAN]

InitMeta ==
    /\ options \in OptionsMeta
    /\ trackedFiles = <<>>
    /\ now = 0
    /\ pending = {}
    /\ last = Ret("constructor", "call", NoPath, NoFile, "void", NoIo)

NextMeta == Step({"a"}, MetaStates, MaxPending)

SpecMeta == InitMeta /\ [][NextMeta]_vars

\* One path, with up to MaxOverlap operations suspended on it at once
NextOverlap == Step({"a"}, FileStates, MaxOverlap)

SpecOverlap == Init /\ [][NextOverlap]_vars

\* ================================================================ claims
\* A step of the service (Tick changes none of these three)
Acted == <<last, trackedFiles, pending>>' # <<last, trackedFiles, pending>>

Returned(op) == last.op = op /\ last.ret # "await"
Mutating == {"registerFile", "autoTrackFile", "updateFileState",
             "refreshFileState", "removeFile", "clear"}

\* C1: whenever a mutating operation has returned, the number of tracked
\* entries is at most maxTrackedFiles.
C1_CapacityBound ==
    (last.op \in Mutating /\ last.ret # "await")
        => Len(trackedFiles) <= options.maxTrackedFiles

\* e is older than f, in the map m that holds both: smaller firstReadAt, ties
\* broken by earlier insertion
Older(m, e, f) ==
    \/ e.firstReadAt < f.firstReadAt
    \/ e.firstReadAt = f.firstReadAt /\ IndexOf(m, e.path) < IndexOf(m, f.path)

\* The map after line 96 of a registerFile(p, _) step, t1 being the reading
\* stored as firstReadAt
Inserted(p, t1) ==
    MapSet(trackedFiles, p,
           NewEntry(p, last'.state, t1, t1))

\* C2: whenever a register call makes the registry size exceed
\* maxTrackedFiles, exactly one entry is removed before register returns, and
\* it is the one with the smallest firstReadAt among the tracked entries, ties
\* broken by earliest insertion order.
C2_EvictsExactlyTheOldest ==
    [][(Acted /\ last'.op = "registerFile")
        => \E t1 \in now..now' :
             LET m1 == Inserted(last'.path, t1)
             IN  Overflows(m1)
                 => \E v \in Keys(m1) :
                      /\ Keys(trackedFiles') = Keys(m1) \ {v}
                      /\ Len(trackedFiles') = Len(m1) - 1
                      /\ \A q \in Keys(m1) \ {v} :
                            Older(m1, Get(m1, v), Get(m1, q))]_vars

\* C3: with maxTrackedFiles >= 1, the entry that register(p, s) has just
\* inserted or overwritten is still tracked when that register call returns.
C3_RegisteredPathSurvives ==
    (options.maxTrackedFiles >= 1 /\ Returned("registerFile"))
        => Has(trackedFiles, last.path)

\* A registry as N registrations of distinct paths into an empty registry of
\* capacity N leave it: full, in registration order, every entry current
FilledByRegistrations(m) ==
    /\ Len(m) = options.maxTrackedFiles
    /\ \A i \in DOMAIN m :
          /\ m[i].status = READ_CURRENT
          /\ m[i].error = Undefined
          /\ \A j \in DOMAIN m : i < j => m[i].firstReadAt <= m[j].firstReadAt

\* C4: starting from an empty registry with capacity N >= 1, registering N+1
\* distinct paths one after another leaves the first-registered path
\* untracked and the N later paths tracked, with exactly N entries: the
\* register of the (N+1)-th path, taken on the registry the first N left.
C4_FirstRegisteredIsEvicted ==
    [][(/\ FilledByRegistrations(trackedFiles)
        /\ Acted /\ last'.op = "registerFile"
        /\ ~Has(trackedFiles, last'.path))
        => /\ ~Has(trackedFiles', trackedFiles[1].path)
           /\ \A i \in 2..Len(trackedFiles) : Has(trackedFiles', trackedFiles[i].path)
           /\ Has(trackedFiles', last'.path)
           /\ Len(trackedFiles') = options.maxTrackedFiles]_vars

\* C5: when register(p, s) returns, the entry for p has status current,
\* snapshot s, no error message, and firstReadAt equal to lastUpdatedAt.
C5_RegisterYieldsCurrent ==
    Returned("registerFile")
        => /\ Has(trackedFiles, last.path)
           /\ LET e == Get(trackedFiles, last.path)
              IN  /\ e.status = READ_CURRENT
                  /\ e.state = last.state
                  /\ e.error = Undefined
                  /\ e.firstReadAt = e.lastUpdatedAt

\* The status the comparison io, made against snapshot s, calls for
StatusFor(io, s) ==
    IF Failed(io) THEN READ_ERROR
    ELSE IF isFresh(io, s) THEN READ_CURRENT ELSE READ_STALE

\* C6: updateState(p, newSnapshot) on a tracked path, run without
\* interleaving (the last service step before its continuation is its own
\* call, and nothing else is in flight), ends with status current if the
\* comparison reports fresh, stale if it reports not fresh, and error with the
\* failure text recorded if the comparison fails; in all three outcomes the
\* stored snapshot is newSnapshot and the call returns normally.
C6_UpdateOutcome ==
    [][(/\ last.op = "updateFileState" /\ last.step = "call" /\ last.ret = "await"
        /\ pending = {Op("update", last.path, last.state, FALSE)}
        /\ Acted
        /\ last'.op = "updateFileState" /\ last'.step = "resume")
        => /\ last'.path = last.path
           /\ last'.ret = "void" /\ last'.thrown = NoThrow
           /\ Has(trackedFiles', last.path)
           /\ LET e == Get(trackedFiles', last.path)
              IN  /\ e.state = last.state
                  /\ e.status = StatusFor(last'.io, last.state)
                  /\ Failed(last'.io) => e.error = last'.io.err
                  /\ ~Failed(last'.io) => e.error = Undefined]_vars

C6_Witness ==
    /\ last.op = "updateFileState" /\ last.step = "resume" /\ last.ret = "void"
    /\ Failed(last.io)
    /\ Has(trackedFiles, last.path)
    /\ Get(trackedFiles, last.path).status = READ_ERROR
    /\ Get(trackedFiles, last.path).error = last.io.err
    /\ Get(trackedFiles, last.path).state = last.state

\* C7: updateState(p, s) on a path that is not tracked fails with a
\* not-tracked error naming p and leaves the registry unchanged.
C7_UpdateUntrackedThrows ==
    [][(/\ Acted
        /\ last'.op = "updateFileState" /\ last'.step = "call"
        /\ ~Has(trackedFiles, last'.path))
        => /\ last'.ret = "throw"
           /\ last'.thrown = NotTrackedError(last'.path)
           /\ trackedFiles' = trackedFiles
           /\ pending' = pending]_vars

C7_Witness ==
    /\ last.op = "updateFileState" /\ last.ret = "throw"
    /\ last.thrown = NotTrackedError(last.path)
    /\ ~Has(trackedFiles, last.path)
    /\ Len(trackedFiles) > 0

\* C8: refresh(p) on a tracked path returns true exactly when the entry for p
\* has status current at the moment refresh returns; it returns false in
\* every other outcome.  (Stated of a refresh whose entry is still the stored
\* one when it returns.)
C8_RefreshTrueIffCurrent ==
    [][\A o \in pending :
        (/\ o.kind \in {"refresh", "update"} /\ o.viaRefresh /\ o.attached
         /\ Acted /\ pending' = pending \ {o}
         /\ last'.op = "refreshFileState" /\ last'.step = "resume"
         /\ last'.path = o.path /\ last'.ret # "await")
        => (last'.ret = "true"
              <=> /\ Has(trackedFiles', o.path)
                  /\ Get(trackedFiles', o.path).status = READ_CURRENT)]_vars

\* C9: when refresh(p) on a tracked path cannot capture the file, it returns
\* false, the status of the entry it looked up becomes error with the failure
\* text as error message, lastUpdatedAt is refreshed, and the snapshot is the
\* one the entry held: the failing refresh writes nothing else.
C9_RefreshFailure ==
    [][\A o \in pending :
        (/\ o.kind = "refresh" /\ o.attached
         /\ Acted /\ pending' = pending \ {o}
         /\ last'.op = "refreshFileState" /\ last'.step = "resume"
         /\ last'.path = o.path
         /\ Failed(last'.io))
        => /\ last'.ret = "false"
           /\ Keys(trackedFiles') = Keys(trackedFiles)
           /\ LET e == Get(trackedFiles, o.path)
                  f == Get(trackedFiles', o.path)
              IN  /\ f.status = READ_ERROR
                  /\ f.error = last'.io.err
                  /\ f.lastUpdatedAt = now'
                  /\ f.state = e.state
                  /\ f.firstReadAt = e.firstReadAt
           /\ \A q \in Keys(trackedFiles) \ {o.path} :
                 Get(trackedFiles', q) = Get(trackedFiles, q)]_vars

C9_Witness ==
    /\ last.op = "refreshFileState" /\ last.step = "resume" /\ last.ret = "false"
    /\ Failed(last.io)
    /\ Has(trackedFiles, last.path)
    /\ Get(trackedFiles, last.path).status = READ_ERROR
    /\ Get(trackedFiles, last.path).error = last.io.err
    /\ Get(trackedFiles, last.path).lastUpdatedAt > Get(trackedFiles, last.path).firstReadAt

\* C10: for every path p that is not tracked, isStale(p) returns false and
\* getFileStatus(p) returns undefined, and neither call creates an entry.
C10_UntrackedQueries ==
    [][(/\ Acted
        /\ last'.op \in {"isFileStale", "getFileStatus"} /\ last'.step = "call"
        /\ ~Has(trackedFiles, last'.path))
        => /\ last'.op = "isFileStale" => last'.ret = "false"
           /\ last'.op = "getFileStatus" => last'.ret = Undefined
           /\ trackedFiles' = trackedFiles
           /\ pending' = pending]_vars

C10_Witness ==
    /\ last.op = "isFileStale" /\ last.step = "call" /\ last.ret = "false"
    /\ ~Has(trackedFiles, last.path)
    /\ Len(trackedFiles) > 0

\* The record isFileStale(p) leaves when it suspends on checkFreshness
StaleCalled(p) == Ret("isFileStale", "call", p, NoFile, "await", NoIo)

\* C11: in metadata mode (useContentHash false), isFileStale(p) on a tracked
\* path returns false exactly when the compare succeeds and the live mtime
\* and the live size both equal those of the entry's stored snapshot; a
\* mismatch in either field, and a failed compare, return true.
C11_MetadataVerdict ==
    [][\A o \in pending :
         (/\ ~options.useContentHash
          /\ o.kind = "isStale"
          /\ pending = {o}
          /\ last = StaleCalled(o.path)
          /\ Acted
          /\ pending' = pending \ {o}
          /\ last'.op = "isFileStale" /\ last'.step = "resume")
         => LET stored == Get(trackedFiles, o.path).state
                live == last'.io
            IN  /\ Has(trackedFiles, o.path)
                /\ last'.ret \in {"true", "false"}
                /\ last'.ret = "false"
                     <=> /\ live.err = Undefined
                         /\ live.stat.mtime = stored.mtime
                         /\ live.stat.size = stored.size]_vars

\* isFileStale answered true for a file whose mtime is the stored one and whose
\* size is not
C11_Witness ==
    /\ ~options.useContentHash
    /\ last.op = "isFileStale" /\ last.step = "resume" /\ last.ret = "true"
    /\ last.io.err = Undefined
    /\ Has(trackedFiles, last.path)
    /\ last.state = Get(trackedFiles, last.path).state
    /\ last.io.stat.mtime = last.state.mtime
    /\ last.io.stat.size # last.state.size

\* C12: isFileStale never changes the registry: neither its call nor its
\* return alters any entry's status, snapshot, error message or timestamps,
\* nor the set of tracked paths, whatever the verdict.
C12_StaleCheckIsReadOnly ==
    [][(Acted /\ last'.op = "isFileStale") => trackedFiles' = trackedFiles]_vars

\* isFileStale answered true after a failed compare, and the entry is still
\* current and without an error message
C12_Witness ==
    /\ last.op = "isFileStale" /\ last.step = "resume" /\ last.ret = "true"
    /\ Failed(last.io)
    /\ Has(trackedFiles, last.path)
    /\ Get(trackedFiles, last.path).status = READ_CURRENT
    /\ Get(trackedFiles, last.path).error = Undefined

\* C13: in every reachable state the four status counts of getStats add up to
\* the number of tracked entries, and the not_read count is 0.
C13_StatsPartition ==
    LET stats == getStats(trackedFiles)
    IN  /\ stats[NOT_READ] + stats[READ_CURRENT] + stats[READ_STALE] + stats[READ_ERROR]
             = Len(getAllTrackedFiles(trackedFiles))
        /\ stats[NOT_READ] = 0

\* an entry in error is counted, and it is the only entry
C13_Witness ==
    /\ Len(trackedFiles) = 1
    /\ getStats(trackedFiles)[READ_ERROR] = 1
    /\ getStats(trackedFiles)[READ_CURRENT] = 0

\* C14: autoTrackFile(p, s) changes nothing when trackAllFiles is false, and
\* when it is true it has exactly the effect of registerFile(p, s), eviction
\* on overflow included.
C14_AutoTrackGate ==
    [][(Acted /\ last'.op = "autoTrackFile")
         => IF options.trackAllFiles
            THEN RegisterEffect(last'.path, last'.state)
            ELSE UNCHANGED <<options, trackedFiles, now, pending>>]_vars

\* autoTrackFile, enabled, has stored the entry a registration stores
C14_Witness ==
    /\ options.trackAllFiles
    /\ last.op = "autoTrackFile"
    /\ Has(trackedFiles, last.path)
    /\ Get(trackedFiles, last.path).state = last.state
    /\ Get(trackedFiles, last.path).status = READ_CURRENT

\* registerFile(p, ..) would push the map over maxTrackedFiles
EvictionDue(p) ==
    Len(trackedFiles) + (IF Has(trackedFiles, p) THEN 0 ELSE 1) > options.maxTrackedFiles

Registers(l) ==
    \/ l.op = "registerFile"
    \/ l.op = "autoTrackFile" /\ options.trackAllFiles

\* C15: a path is tracked exactly when a registerFile (or an enabled
\* autoTrackFile) of it has completed with no removeFile, clear or eviction of
\* it since: paths enter the map only in a registration of that path and
\* leave it only in a removeFile of that path, a clear, or the eviction of a
\* registration that overflows.  In particular the continuation of an
\* updateFileState, refreshFileState or isFileStale that was suspended when
\* its path left the map does not put the path back.
C15_TrackedIffRegistered ==
    [][Acted =>
        LET p == last'.path
            entered == Keys(trackedFiles') \ Keys(trackedFiles)
            left == Keys(trackedFiles) \ Keys(trackedFiles')
        IN  /\ entered # {} => Registers(last') /\ entered = {p}
            /\ left # {} =>
                  \/ last'.op = "removeFile" /\ left = {p}
                  \/ last'.op = "clear"
                  \/ Registers(last') /\ EvictionDue(p) /\ Cardinality(left) = 1
            /\ Registers(last') => p \in Keys(trackedFiles') \/ EvictionDue(p)
            /\ last'.op = "removeFile" => p \notin Keys(trackedFiles')
            /\ last'.op = "clear" => trackedFiles' = <<>>]_vars

\* an updateFileState that was suspended when its path left the map has
\* completed, and the path is still untracked
C15_Witness ==
    /\ last.op = "updateFileState" /\ last.step = "resume"
    /\ ~Has(trackedFiles, last.path)

\* C16: with a clock that never goes back, every tracked entry has
\* lastUpdatedAt >= firstReadAt in every reachable state, whatever the
\* interleaving of the operations.
C16_UpdatedNotBeforeFirstRead ==
    \A i \in DOMAIN trackedFiles :
        trackedFiles[i].lastUpdatedAt >= trackedFiles[i].firstReadAt

\* an entry updated after the clock moved on, with an operation suspended
C16_Witness ==
    /\ pending # {}
    /\ \E i \in DOMAIN trackedFiles :
          trackedFiles[i].lastUpdatedAt > trackedFiles[i].firstReadAt

\* C17: updateFileState(p, s) run twice in a row, with s the snapshot already
\* stored and the live file (the outcome of the compare) the same both times,
\* leaves the same status after the second run as after the first.
C17_UpdateIdempotent ==
    \A p \in Keys(trackedFiles), io \in FsOutcomes(FileStates) :
        \A t1 \in now..MaxTime : \A t2 \in t1..MaxTime :
            LET s == Get(trackedFiles, p).state
                once == Updated(trackedFiles, p, s, t1, io)
                twice == Updated(once, p, s, t2, io)
            IN  Get(twice, p).status = Get(once, p).status

\* an entry in error whose live file differs from the stored snapshot: the
\* first run moves it to stale, where the second has to leave it
C17_Witness ==
    \E p \in Keys(trackedFiles), io \in FsOutcomes(FileStates) :
        /\ Get(trackedFiles, p).status = READ_ERROR
        /\ ~Failed(io)
        /\ Get(Updated(trackedFiles, p, Get(trackedFiles, p).state, now, io), p).status
             = READ_STALE

\* C18: in every reachable state, operations suspended at their await
\* included, a tracked entry carries an error message exactly when its status
\* is read_error.
C18_ErrorIffErrorStatus ==
    \A i \in DOMAIN trackedFiles :
        trackedFiles[i].error # Undefined <=> trackedFiles[i].status = READ_ERROR

\* an entry in error, with its message, while two operations are suspended
C18_Witness ==
    /\ Cardinality(pending) = 2
    /\ \E i \in DOMAIN trackedFiles :
          /\ trackedFiles[i].status = READ_ERROR
          /\ trackedFiles[i].error \in Errors

\* The operation o has just suspended after writing into its entry, and no
\* other service step has run since
JustSuspended(o) ==
    /\ o.kind = "update" /\ o.attached
    /\ last.op \in {"updateFileState", "refreshFileState"}
    /\ last.ret = "await"
    /\ last.path = o.path /\ last.state = o.state
    /\ last.before # NoEntry

\* The operation o completes in this step
Completes(o) ==
    /\ Acted
    /\ pending' = pending \ {o}
    /\ last'.step = "resume" /\ last'.path = o.path /\ last'.ret # "await"

\* C19: a read-only operation that runs while an updateFileState or a
\* refreshFileState is suspended never observes a partially written entry:
\* the entry stored while the operation is suspended (the object getFileStatus
\* returns) is either the entry as it was before the operation began or the
\* entry as it is once the operation has completed.
C19_NoPartialEntry ==
    [][\A o \in pending :
         (JustSuspended(o) /\ Completes(o))
         => LET seen == Get(trackedFiles, o.path)
            IN  \/ seen = last.before
                \/ seen = Get(trackedFiles', o.path)]_vars

\* C20: when two updateFileState / refreshFileState calls overlap on one
\* path, the entry left once both have completed is the one a serial run
\* ending with the later-completing call leaves: its snapshot and its status
\* both come from the call that completed last, and lastUpdatedAt is the time
\* of that completion.
C20_LastCompletionWins ==
    [][\A o \in pending :
         (/\ pending = {o}
          /\ o.kind = "update" /\ o.attached
          /\ last.op \in {"updateFileState", "refreshFileState"}
          /\ last.step = "resume" /\ last.ret # "await"
          /\ last.path = o.path
          /\ Completes(o))
         => LET e == Get(trackedFiles', o.path)
            IN  /\ e.state = o.state
                /\ e.status = StatusFor(last'.io, o.state)
                /\ e.lastUpdatedAt = now']_vars

\* C21: an entry's firstReadAt is the time its path was first registered since
\* it was last absent: no operation on a path that stays tracked
\* (updateFileState, refreshFileState, isFileStale, or a second registerFile
\* of the same path) changes it.
C21_FirstReadAtFrame ==
    [][Acted =>
        \A p \in Keys(trackedFiles) \cap Keys(trackedFiles') :
            Get(trackedFiles', p).firstReadAt = Get(trackedFiles, p).firstReadAt]_vars

\* C22: when a path was removed, cleared or evicted and then registered again
\* while an updateFileState on it was suspended, the completion of that older
\* updateFileState writes nothing to the newly registered entry, which keeps
\* status read_current, the snapshot given to the new registration, and no
\* error message.
C22_StaleCompletionWritesNothing ==
    [][\A o \in pending :
         (/\ o.kind = "update" /\ ~o.viaRefresh /\ ~o.attached
          /\ Registers(last) /\ last.path = o.path
          /\ Has(trackedFiles, o.path)
          /\ Completes(o))
         => LET e == Get(trackedFiles', o.path)
            IN  /\ e = Get(trackedFiles, o.path)
                /\ e.status = READ_CURRENT
                /\ e.state = last.state
                /\ e.error = Undefined]_vars

\* the older updateFileState has completed on a failed compare, with another
\* snapshot than the one registered since, and the entry is current, holds
\* the registered snapshot and has no error message
C22_Witness ==
    /\ last.op = "updateFileState" /\ last.step = "resume"
    /\ Failed(last.io)
    /\ Has(trackedFiles, last.path)
    /\ Get(trackedFiles, last.path).state # last.state
    /\ Get(trackedFiles, last.path).status = READ_CURRENT
    /\ Get(trackedFiles, last.path).error = Undefined

====
